---------------------------- MODULE Spec2Model ----------------------------
(***************************************************************************)
(* A model of clone.py: the per-user CloneWorker, its clone_messages       *)
(* coroutine (one action per suspension point), the bot handlers that      *)
(* launch, stop and resume a job, and the per-user files under user_data/. *)
(***************************************************************************)
EXTENDS Integers, Sequences, FiniteSets, TLC

(* ------------------------------ bounds --------------------------------- *)

\* Largest message id of a source channel; range bounds are drawn from 0..MaxId.
MaxId == 2

\* Page size of GetHistoryRequest, scaled down from the code's 100 so that a
\* channel of MaxId messages spans several pages.  Line 181's "% 100" is the
\* same number in the code and is scaled with it.
limit == 2

\* How many failures (a failed transfer, a failed notification) the platform
\* produces for one user; caps the length of the error log.
MaxErrors == 1

\* How many clone_messages tasks the handlers create for one user.
MaxLaunches == 2

(* ------------------------------ helpers -------------------------------- *)

Users == {"A", "B"}

\* Python's None for the optional arguments start_id and end_id: an optional
\* integer is <<>> (None) or <<n>>.
NoneArg == <<>>

Some(n) == <<n>>

\* Python truthiness of an optional integer: None and 0 are falsy.
Truthy(o) == o # NoneArg /\ o[1] # 0

\* list.reverse()
Reverse(s) == [i \in 1..Len(s) |-> s[Len(s) + 1 - i]]

RECURSIVE SelectIds(_, _, _)
\* [msg for msg in all_messages if lo <= msg.id <= hi]
SelectIds(s, lo, hi) ==
    IF s = <<>> THEN <<>>
    ELSE IF lo <= Head(s) /\ Head(s) <= hi
         THEN <<Head(s)>> \o SelectIds(Tail(s), lo, hi)
         ELSE SelectIds(Tail(s), lo, hi)

Max(a, b) == IF a >= b THEN a ELSE b

SetMax(S) == CHOOSE x \in S : \A y \in S : y <= x

RECURSIVE Descending(_, _)
\* The n largest elements of S, largest first.
Descending(S, n) ==
    IF n = 0 \/ S = {} THEN <<>>
    ELSE <<SetMax(S)>> \o Descending(S \ {SetMax(S)}, n - 1)


(* --------------------- strings and channel ids ------------------------- *)

\* A Python string of a number is a sequence of the characters "-" and
\* "0" .. "9".
DigitChars == <<"0", "1", "2", "3", "4", "5", "6", "7", "8", "9">>

DigitValue(c) == CHOOSE d \in 0..9 : DigitChars[d + 1] = c

RECURSIVE Digits(_)
\* The decimal digits of n >= 0.
Digits(n) ==
    IF n < 10 THEN <<DigitChars[n + 1]>>
    ELSE Digits(n \div 10) \o <<DigitChars[(n % 10) + 1]>>

\* str(cid) of an integer.
str(n) == IF n < 0 THEN <<"-">> \o Digits(0 - n) ELSE Digits(n)

\* s.startswith(p)
startswith(s, p) == Len(s) >= Len(p) /\ SubSeq(s, 1, Len(p)) = p

RECURSIVE DigitsValue(_)
DigitsValue(s) ==
    IF s = <<>> THEN 0
    ELSE 10 * DigitsValue(SubSeq(s, 1, Len(s) - 1)) + DigitValue(s[Len(s)])

\* int(s): the value of an optional sign followed by digits, or ValueError
\* (ok is FALSE).
int(s) ==
    LET body == IF s # <<>> /\ s[1] = "-" THEN Tail(s) ELSE s
        digits == body # <<>> /\ \A i \in 1..Len(body) : body[i] # "-"
    IN IF ~digits THEN [ok |-> FALSE, value |-> 0]
       ELSE [ok |-> TRUE,
             value |-> IF s[1] = "-" THEN 0 - DigitsValue(body) ELSE DigitsValue(body)]

\* "-100", the prefix of a channel id in its marked form.
prefix == <<"-", "1", "0", "0">>

\* normalize_channel_id that prepends the prefix to every id.
normalize_always_prefixed(cid) == int(prefix \o str(cid))

\* Lines 140-142.
normalize_channel_id(cid) ==
    IF startswith(str(cid), prefix) THEN int(str(cid)) ELSE int(prefix \o str(cid))

(* ------------------------- program constants --------------------------- *)

\* total_messages // 10 (line 200): the status is refreshed ten times a job.
progress_divisor == 10

(* ------------------------------- state --------------------------------- *)

VARIABLES
    worker,   \* user_sessions[u]: the CloneWorker's fields
    files,    \* the user's files under user_data/
    job,      \* the locals and the position of the admitted clone_messages task
    tasks,    \* the other tasks of the user: created, rejected, disconnecting
    hist,     \* what happened so far, for stating properties (never read by the code)
    channel,  \* the message ids of the user's source channel
    config,   \* load_config(u): which keys are present
    reply     \* the last reply_text of a handler

vars == <<worker, files, job, tasks, hist, channel, config, reply>>

\* A status message: its text up to the numbers it carries.
Status(kind, a, b) == <<kind, a, b>>

\* Positions of clone_messages at which the task is suspended in an await.
CollectPcs == {"notify_collecting", "fetch", "notify_collected",
               "notify_stopped_collect", "notify_collect_error"}

TransferPcs == {"download", "send_file", "send_message"}

ReplicatePcs == TransferPcs \cup {"notify_ready", "notify_progress", "sleep",
                                  "notify_error", "notify_stopped"}

\* The value of the per-user state that the sequential code works on.
Cur(u) == [w |-> worker[u], f |-> files[u], j |-> job[u], t |-> tasks[u], h |-> hist[u]]

\* Commit with files that are not keyed by the user id: every user's files
\* are the ones just written.
CommitShared(u, s) ==
    /\ worker' = [worker EXCEPT ![u] = s.w]
    /\ files' = [v \in Users |-> s.f]
    /\ job' = [job EXCEPT ![u] = s.j]
    /\ tasks' = [tasks EXCEPT ![u] = s.t]
    /\ hist' = [hist EXCEPT ![u] = s.h]
    /\ UNCHANGED <<channel, config>>

Commit(u, s) ==
    /\ worker' = [worker EXCEPT ![u] = s.w]
    /\ files' = [files EXCEPT ![u] = s.f]
    /\ job' = [job EXCEPT ![u] = s.j]
    /\ tasks' = [tasks EXCEPT ![u] = s.t]
    /\ hist' = [hist EXCEPT ![u] = s.h]
    /\ UNCHANGED <<channel, config>>

\* CloneWorker.__init__
NewWorker ==
    [is_cloning |-> FALSE, current_status |-> Status("Idle", 0, 0),
     last_update |-> "None", progress |-> <<0, 0>>]

NoJob ==
    [pc |-> "idle", start_id |-> NoneArg, end_id |-> NoneArg, all_messages |-> <<>>,
     offset_id |-> 0, total_messages |-> 0, processed |-> 0, pos |-> 0,
     src_entity |-> 0, tgt_entity |-> 0]

NoFiles(sentExists) ==
    [stop |-> FALSE, start |-> FALSE, sent_exists |-> sentExists, sent |-> <<>>,
     error |-> <<>>, status |-> <<>>]

NoTasks == [created |-> <<>>, rejected |-> 0, closing |-> 0, open |-> 0]

NoHist ==
    [admitted |-> 0, launches |-> 0, reversed |-> <<>>, stop_seen |-> "no", stop_at |-> -1,
     base |-> 0]

\* The users whose handlers and tasks run.
Active == {"A"}

\* load_config(u): whether the keys of the credentials and of the two
\* channels are present, and the channel ids.
Config(creds, chans, src, tgt) ==
    [credentials |-> creds, channels |-> chans,
     source_channel_id |-> src, target_channel_id |-> tgt]

Init ==
    /\ worker = [u \in Users |-> NewWorker]
    /\ job = [u \in Users |-> NoJob]
    /\ tasks = [u \in Users |-> NoTasks]
    /\ hist = [u \in Users |-> NoHist]
    /\ reply = [u \in Users |-> "none"]
    /\ \E n \in 0..MaxId :
          channel = [u \in Users |-> IF u \in Active THEN 1..n ELSE {}]
    /\ \E creds \in BOOLEAN, chans \in BOOLEAN :
          config = [u \in Users |-> IF u \in Active
                                    THEN Config(creds, chans, -1001, -1002)
                                    ELSE Config(FALSE, FALSE, 0, 0)]
    /\ \E e \in BOOLEAN :
          files = [u \in Users |-> NoFiles(u \in Active /\ e)]

(* ------------------------- CloneWorker helpers ------------------------- *)

log_error(s, msg) == [s EXCEPT !.f.error = Append(@, msg)]

\* update_status up to its await: the fields, then the status file.
update_status(s, message) ==
    [s EXCEPT !.w.current_status = message,
              !.w.last_update = "HH:MM:SS",
              !.f.status = <<[message |-> message, timestamp |-> "HH:MM:SS",
                              progress |-> s.w.progress]>>]

\* Notified in which a failed notification also gives up the job.
NotifiedEscalates(s, ok) ==
    IF ok THEN s
    ELSE [s EXCEPT !.f.error = Append(@, <<"Status update failed", 0>>),
                   !.w.is_cloning = FALSE]

\* update_status after its await: a failed send_message is logged and swallowed.
Notified(s, ok) ==
    IF ok THEN s ELSE log_error(s, <<"Status update failed", 0>>)

\* The platform fails only while the error log is short of MaxErrors.
CanFail(u) == Len(files[u].error) < MaxErrors

Outcomes(u) == IF CanFail(u) THEN BOOLEAN ELSE {TRUE}

Kinds == {"media", "text", "empty"}


(* ------------------- clone_messages: sequential pieces ----------------- *)

\* GetHistoryRequest(offset_id, limit): up to n <= limit messages older than
\* offset_id (0: from the newest), newest first.
Page(ids, offset_id, n) ==
    Descending(IF offset_id = 0 THEN ids ELSE {i \in ids : i < offset_id}, n)

\* Lines 189-190: the range filter, guarded by the truthiness of both bounds.
RangeFilter(msgs, start_id, end_id) ==
    IF Truthy(start_id) /\ Truthy(end_id)
    THEN SelectIds(msgs, start_id[1], end_id[1])
    ELSE msgs

\* Lines 157-165: the top of the collection loop, up to the next await.
CollectLoop(s) ==
    IF s.f.stop
    THEN update_status([s EXCEPT !.f.stop = FALSE, !.h.stop_seen = "collect",
                                 !.j.pc = "notify_stopped_collect"],
                       Status("Stopped by user request", 0, 0))
    ELSE [s EXCEPT !.j.pc = "fetch"]

\* EndCollect that counts the filtered sequence but iterates over the whole.
EndCollectUnfiltered(s) ==
    LET rev == Reverse(s.j.all_messages)
        kept == RangeFilter(rev, s.j.start_id, s.j.end_id)
    IN update_status([s EXCEPT !.j.all_messages = rev,
                               !.j.total_messages = Len(kept),
                               !.j.processed = 0,
                               !.j.pos = 0,
                               !.j.offset_id = 0,
                               !.w.progress = <<0, Len(kept)>>,
                               !.h.reversed = rev,
                               !.j.pc = "notify_ready"],
                     Status("Ready to clone", Len(kept), 0))

\* Lines 188-196: after the collection loop, up to the await of "Ready".
EndCollect(s) ==
    LET rev == Reverse(s.j.all_messages)
        kept == RangeFilter(rev, s.j.start_id, s.j.end_id)
    IN update_status([s EXCEPT !.j.all_messages = kept,
                               !.j.total_messages = Len(kept),
                               !.j.processed = 0,
                               !.j.pos = 0,
                               !.j.offset_id = 0,
                               !.w.progress = <<0, Len(kept)>>,
                               !.h.reversed = rev,
                               !.j.pc = "notify_ready"],
                     Status("Ready to clone", Len(kept), 0))

\* Lines 240-247: the final status, up to its await.
Finish(s) ==
    IF s.f.stop
    THEN update_status([s EXCEPT !.f.stop = FALSE, !.j.pc = "notify_final"],
                       Status("Stopped early", s.j.processed, s.j.total_messages))
    ELSE update_status([s EXCEPT !.j.pc = "notify_final"],
                       Status("Completed", s.j.processed, s.j.total_messages))

\* Success that counts the item without writing it to the sent log.
SuccessUnlogged(s) ==
    LET processed == s.j.processed + 1
        progress_interval == Max(1, s.j.total_messages \div progress_divisor)
        s1 == [s EXCEPT !.j.processed = processed,
                        !.w.progress = <<processed, s.j.total_messages>>]
    IN IF processed % progress_interval = 0 \/ processed = s.j.total_messages
       THEN update_status([s1 EXCEPT !.j.pc = "notify_progress"],
                          Status("Cloning", processed, s.j.total_messages))
       ELSE [s1 EXCEPT !.j.pc = "sleep"]

\* Lines 218-233: the item was sent (or was a no-op); up to the next await.
Success(s) ==
    LET id == s.j.all_messages[s.j.pos]
        processed == s.j.processed + 1
        progress_interval == Max(1, s.j.total_messages \div progress_divisor)
        s1 == [s EXCEPT !.f.sent = Append(@, id),
                        !.f.sent_exists = TRUE,
                        !.j.processed = processed,
                        !.w.progress = <<processed, s.j.total_messages>>]
    IN IF processed % progress_interval = 0 \/ processed = s.j.total_messages
       THEN update_status([s1 EXCEPT !.j.pc = "notify_progress"],
                          Status("Cloning", processed, s.j.total_messages))
       ELSE [s1 EXCEPT !.j.pc = "sleep"]

\* Failure that leaves the loop after logging the error.
FailureBreaks(s) ==
    Finish(log_error(s, <<"Message failed", s.j.all_messages[s.j.pos]>>))

\* Lines 235-238: the item failed; up to the await of the error status.
Failure(s) ==
    LET id == s.j.all_messages[s.j.pos]
    IN update_status(log_error([s EXCEPT !.j.pc = "notify_error"],
                               <<"Message failed", id>>),
                     Status("Error on message (continuing)", id, 0))

\* Lines 202-216: the top of the cloning loop for the next item, of the given
\* kind, up to the next await; the loop ends after the last item.
CloneLoop(s, kind) ==
    IF s.j.pos = Len(s.j.all_messages)
    THEN Finish(s)
    ELSE LET s1 == [s EXCEPT !.j.pos = @ + 1]
         IN IF s1.f.stop
            THEN update_status([s1 EXCEPT !.h.stop_seen = "clone",
                                          !.j.pc = "notify_stopped"],
                               Status("Stopped", s1.j.processed, s1.j.total_messages))
            ELSE CASE kind = "media" -> [s1 EXCEPT !.j.pc = "download"]
                   [] kind = "text" -> [s1 EXCEPT !.j.pc = "send_message"]
                   [] OTHER -> Success(s1)

\* The task is over: its locals are gone.
Ended(s, pc) ==
    [s EXCEPT !.j = [NoJob EXCEPT !.pc = pc],
              !.h.reversed = <<>>, !.h.stop_seen = "no", !.h.stop_at = -1,
              !.h.base = 0]

\* Lines 131-132, 136-137, 148-149, 248: is_cloning is reset and the task
\* returns (after line 248, once its disconnect is done).
Abort(s) ==
    Ended([s EXCEPT !.w.is_cloning = FALSE, !.h.admitted = @ - 1], "idle")

\* An exception leaves clone_messages: the task ends, is_cloning stays set.
Crash(s) == Ended(s, "crashed")


(* ------------------ clone_messages: one action per await --------------- *)

\* Updates are handled one at a time, and a task made by asyncio.create_task
\* runs its first step as soon as the handler awaits its reply, ahead of the
\* tasks that wake up later: while a created task has not started, it is the
\* one to run.
NoneCreated(u) == tasks[u].created = <<>>

\* The admitted task of user u is suspended at pc and may go on.
At(u, pc) == NoneCreated(u) /\ job[u].pc = pc

\* Busy without its check: every invocation is admitted.
BusyNever(w) == FALSE

\* Line 122: the admission check.
Busy(w) == w.is_cloning

\* Lines 121-129 and 84-94: a created task starts to run.  It is rejected
\* (lines 123-124) or admitted, and then runs up to its first await.
Admit(u) ==
    /\ tasks[u].created # <<>>
    /\ LET args == Head(tasks[u].created)
           s == [Cur(u) EXCEPT !.t.created = Tail(@)]
       IN IF Busy(s.w)
          THEN Commit(u, update_status([s EXCEPT !.t.rejected = @ + 1],
                                       Status("Already running a clone operation", 0, 0)))
          ELSE LET s1 == [s EXCEPT !.w.is_cloning = TRUE,
                                   !.h.admitted = @ + 1,
                                   !.h.stop_seen = "no",
                                   !.h.stop_at = -1,
                                   !.h.reversed = <<>>,
                                   !.h.base = Len(s.f.sent),
                                   !.j = [NoJob EXCEPT !.start_id = args.start_id,
                                                       !.end_id = args.end_id]]
               IN IF config[u].credentials
                  THEN Commit(u, [s1 EXCEPT !.j.pc = "connect"])
                  ELSE Commit(u, update_status([s1 EXCEPT !.j.pc = "notify_init_failed"],
                                               Status("Client initialization failed", 0, 0)))
    /\ UNCHANGED reply

\* Line 123, after the await: the rejected task ends.
RejectNotified(u) ==
    /\ NoneCreated(u)
    /\ tasks[u].rejected > 0
    /\ \E ok \in Outcomes(u) :
          Commit(u, Notified([Cur(u) EXCEPT !.t.rejected = @ - 1], ok))
    /\ UNCHANGED reply

\* Lines 130-132.
InitFailedNotified(u) ==
    /\ At(u, "notify_init_failed")
    /\ \E ok \in Outcomes(u) : Commit(u, Abort(Notified(Cur(u), ok)))
    /\ UNCHANGED reply

\* Lines 146-147: normalize_channel_id or get_entity raised.
ChannelFailed(s) ==
    update_status([s EXCEPT !.j.pc = "notify_channel_failed"],
                  Status("Channel access failed", 0, 0))

\* Line 94, then 134-144: connect() returns, or raises out of clone_messages;
\* the source id is normalized and get_entity is called with it.
ConnectDone(u) ==
    /\ At(u, "connect")
    /\ \E ok \in BOOLEAN :
          LET s == Cur(u)
              s1 == [s EXCEPT !.t.open = @ + 1]
          IN IF ~ok
             THEN Commit(u, Crash(s))
             ELSE IF ~config[u].channels
                  THEN Commit(u, update_status([s1 EXCEPT !.j.pc = "notify_missing"],
                                               Status("Missing source or target channel", 0, 0)))
                  ELSE IF normalize_channel_id(config[u].source_channel_id).ok
                       THEN Commit(u, [s1 EXCEPT !.j.pc = "get_src"])
                       ELSE Commit(u, ChannelFailed(s1))
    /\ UNCHANGED reply

\* Lines 135-137.
MissingNotified(u) ==
    /\ At(u, "notify_missing")
    /\ \E ok \in Outcomes(u) : Commit(u, Abort(Notified(Cur(u), ok)))
    /\ UNCHANGED reply

\* Lines 144-145: the source entity is there, the target id is normalized
\* and get_entity is called with it.  An entity is held as the id it was
\* looked up by.
GetSrcDone(u) ==
    /\ At(u, "get_src")
    /\ \E ok \in BOOLEAN :
          LET s == [Cur(u) EXCEPT !.j.src_entity =
                       normalize_channel_id(config[u].source_channel_id).value]
          IN IF ~ok
             THEN Commit(u, ChannelFailed(Cur(u)))
             ELSE IF normalize_channel_id(config[u].target_channel_id).ok
                  THEN Commit(u, [s EXCEPT !.j.pc = "get_tgt"])
                  ELSE Commit(u, ChannelFailed(s))
    /\ UNCHANGED reply

\* Lines 145, 152-155.
GetTgtDone(u) ==
    /\ At(u, "get_tgt")
    /\ \E ok \in BOOLEAN :
          IF ok
          THEN Commit(u, update_status([Cur(u) EXCEPT !.j.tgt_entity =
                                                         normalize_channel_id(
                                                            config[u].target_channel_id).value,
                                                      !.j.all_messages = <<>>,
                                                      !.j.offset_id = 0,
                                                      !.j.pc = "notify_collecting"],
                                       Status("Collecting messages...", 0, 0)))
          ELSE Commit(u, ChannelFailed(Cur(u)))
    /\ UNCHANGED reply

\* Lines 147-149.
ChannelFailedNotified(u) ==
    /\ At(u, "notify_channel_failed")
    /\ \E ok \in Outcomes(u) : Commit(u, Abort(Notified(Cur(u), ok)))
    /\ UNCHANGED reply

\* Line 152, after the await: the first pass of the collection loop.
CollectingNotified(u) ==
    /\ At(u, "notify_collecting")
    /\ \E ok \in Outcomes(u) : Commit(u, CollectLoop(Notified(Cur(u), ok)))
    /\ UNCHANGED reply

\* Fetched with the next page anchored at the first message of the page
\* instead of the last.
FetchedAnchorFirst(s, page) ==
    IF page = <<>>
    THEN EndCollect(s)
    ELSE LET all == s.j.all_messages \o page
             s1 == [s EXCEPT !.j.all_messages = all,
                             !.j.offset_id = page[1]]
         IN IF Len(all) % limit = 0
            THEN update_status([s1 EXCEPT !.j.pc = "notify_collected"],
                               Status("Collected", Len(all), 0))
            ELSE CollectLoop(s1)

\* Lines 175-186: the page has arrived, or the request raised.
Fetched(s, page) ==
    IF page = <<>>
    THEN EndCollect(s)
    ELSE LET all == s.j.all_messages \o page
             s1 == [s EXCEPT !.j.all_messages = all,
                             !.j.offset_id = page[Len(page)]]
         IN IF Len(all) % limit = 0
            THEN update_status([s1 EXCEPT !.j.pc = "notify_collected"],
                               Status("Collected", Len(all), 0))
            ELSE CollectLoop(s1)

\* Line 165.
FetchDone(u) ==
    /\ At(u, "fetch")
    /\ \/ \E n \in 1..limit :
             Commit(u, Fetched(Cur(u), Page(channel[u], job[u].offset_id, n)))
       \/ Commit(u, update_status([Cur(u) EXCEPT !.j.pc = "notify_collect_error"],
                                  Status("Collection error", 0, 0)))
    /\ UNCHANGED reply

\* Line 182, after the await.
CollectedNotified(u) ==
    /\ At(u, "notify_collected")
    /\ \E ok \in Outcomes(u) : Commit(u, CollectLoop(Notified(Cur(u), ok)))
    /\ UNCHANGED reply

\* Lines 161-162, after the await: break.
StoppedCollectNotified(u) ==
    /\ At(u, "notify_stopped_collect")
    /\ \E ok \in Outcomes(u) : Commit(u, EndCollect(Notified(Cur(u), ok)))
    /\ UNCHANGED reply

\* CollectErrorNotified that tries the page again instead of breaking.
CollectErrorRetried(u) ==
    /\ At(u, "notify_collect_error")
    /\ \E ok \in Outcomes(u) : Commit(u, CollectLoop(Notified(Cur(u), ok)))
    /\ UNCHANGED reply

\* Lines 185-186, after the await: break.
CollectErrorNotified(u) ==
    /\ At(u, "notify_collect_error")
    /\ \E ok \in Outcomes(u) : Commit(u, EndCollect(Notified(Cur(u), ok)))
    /\ UNCHANGED reply

\* Line 196, after the await: the first pass of the cloning loop.
ReadyNotified(u) ==
    /\ At(u, "notify_ready")
    /\ \E ok \in Outcomes(u), kind \in Kinds :
          Commit(u, CloneLoop(Notified(Cur(u), ok), kind))
    /\ UNCHANGED reply

\* Lines 205-207, after the await: os.remove raises when the marker is gone.
StoppedNotified(u) ==
    /\ At(u, "notify_stopped")
    /\ \E ok \in Outcomes(u) :
          LET s == Notified(Cur(u), ok)
          IN IF s.f.stop
             THEN Commit(u, Finish([s EXCEPT !.f.stop = FALSE]))
             ELSE Commit(u, Crash(s))
    /\ UNCHANGED reply

\* Line 211.
DownloadDone(u) ==
    /\ At(u, "download")
    /\ \E ok \in Outcomes(u) :
          IF ok THEN Commit(u, [Cur(u) EXCEPT !.j.pc = "send_file"])
          ELSE Commit(u, Failure(Cur(u)))
    /\ UNCHANGED reply

\* Lines 212-214.
SendFileDone(u) ==
    /\ At(u, "send_file")
    /\ \E ok \in Outcomes(u) :
          IF ok THEN Commit(u, Success(Cur(u))) ELSE Commit(u, Failure(Cur(u)))
    /\ UNCHANGED reply

\* Line 216.
SendMessageDone(u) ==
    /\ At(u, "send_message")
    /\ \E ok \in Outcomes(u) :
          IF ok THEN Commit(u, Success(Cur(u))) ELSE Commit(u, Failure(Cur(u)))
    /\ UNCHANGED reply

\* Lines 226-233.
ProgressNotified(u) ==
    /\ At(u, "notify_progress")
    /\ \E ok \in Outcomes(u) :
          Commit(u, [Notified(Cur(u), ok) EXCEPT !.j.pc = "sleep"])
    /\ UNCHANGED reply

\* Line 233, after the await: the next pass of the loop.
SleepDone(u) ==
    /\ At(u, "sleep")
    /\ \E kind \in Kinds : Commit(u, CloneLoop(Cur(u), kind))
    /\ UNCHANGED reply

\* Line 238, after the await: the next pass of the loop.
ErrorNotified(u) ==
    /\ At(u, "notify_error")
    /\ \E ok \in Outcomes(u), kind \in Kinds :
          Commit(u, CloneLoop(Notified(Cur(u), ok), kind))
    /\ UNCHANGED reply

\* Lines 247-249: the job is over; disconnect() is awaited last.
FinalNotified(u) ==
    /\ At(u, "notify_final")
    /\ \E ok \in Outcomes(u) :
          Commit(u, [Abort(Notified(Cur(u), ok)) EXCEPT !.t.closing = @ + 1])
    /\ UNCHANGED reply

\* Line 249, after the await.
DisconnectDone(u) ==
    /\ NoneCreated(u)
    /\ tasks[u].closing > 0
    /\ Commit(u, [Cur(u) EXCEPT !.t.closing = @ - 1, !.t.open = @ - 1])
    /\ UNCHANGED reply


(* ------------------------------ handlers ------------------------------- *)

\* asyncio.create_task(worker.clone_messages(..., start_id, end_id))
create_task(s, start_id, end_id) ==
    [s EXCEPT !.t.created = Append(@, [start_id |-> start_id, end_id |-> end_id]),
              !.h.launches = @ + 1]

\* The bounds a user can type for a range clone.
RangeIds == 0..MaxId

\* full_clone that launches the job without creating the Start marker.
full_clone_unmarked(u) ==
    /\ NoneCreated(u)
    /\ hist[u].launches < MaxLaunches
    /\ Commit(u, create_task([Cur(u) EXCEPT !.f.stop = FALSE], NoneArg, NoneArg))
    /\ reply' = [reply EXCEPT ![u] = "Full clone started..."]

\* Lines 573-594.
full_clone(u) ==
    /\ NoneCreated(u)
    /\ hist[u].launches < MaxLaunches
    /\ Commit(u, create_task([Cur(u) EXCEPT !.f.start = TRUE, !.f.stop = FALSE],
                             NoneArg, NoneArg))
    /\ reply' = [reply EXCEPT ![u] = "Full clone started..."]

\* Lines 541-571, for a text that is an integer.
set_range_end(u) ==
    /\ NoneCreated(u)
    /\ hist[u].launches < MaxLaunches
    /\ \E start_id \in RangeIds, end_id \in RangeIds :
          Commit(u, create_task([Cur(u) EXCEPT !.f.start = TRUE],
                                Some(start_id), Some(end_id)))
    /\ reply' = [reply EXCEPT ![u] = "Range clone started"]

\* resume_clone without its two early returns: an absent or empty log counts
\* as a last id of 0.
resume_clone_unchecked(u) ==
    /\ NoneCreated(u)
    /\ hist[u].launches < MaxLaunches
    /\ LET last_id == IF files[u].sent = <<>> THEN 0
                      ELSE files[u].sent[Len(files[u].sent)]
       IN Commit(u, create_task([Cur(u) EXCEPT !.f.start = TRUE, !.f.stop = FALSE],
                                Some(last_id + 1), NoneArg))
    /\ reply' = [reply EXCEPT ![u] = "Resuming clone"]

\* Lines 629-669.
resume_clone(u) ==
    /\ NoneCreated(u)
    /\ IF ~files[u].sent_exists
       THEN /\ reply' = [reply EXCEPT ![u] = "No previous clone operation to resume"]
            /\ UNCHANGED <<worker, files, job, tasks, hist, channel, config>>
       ELSE IF files[u].sent = <<>>
       THEN /\ reply' = [reply EXCEPT ![u] = "No sent messages found in log"]
            /\ UNCHANGED <<worker, files, job, tasks, hist, channel, config>>
       ELSE /\ hist[u].launches < MaxLaunches
            /\ LET last_id == files[u].sent[Len(files[u].sent)]
               IN Commit(u, create_task([Cur(u) EXCEPT !.f.start = TRUE, !.f.stop = FALSE],
                                        Some(last_id + 1), NoneArg))
            /\ reply' = [reply EXCEPT ![u] = "Resuming clone"]

\* Lines 617-627.  hist.stop_at notes how many items the Replicator had
\* processed when the marker was created.
stop_clone(u) ==
    /\ NoneCreated(u)
    /\ LET s == Cur(u)
           k == IF job[u].pc \in ReplicatePcs \ {"notify_ready", "notify_stopped"}
                   /\ ~files[u].stop /\ hist[u].stop_at = -1
                THEN job[u].processed ELSE hist[u].stop_at
       IN Commit(u, [s EXCEPT !.f.stop = TRUE, !.h.stop_at = k])
    /\ reply' = [reply EXCEPT ![u] = "Clone stop requested."]

(* --------------------------- specification ----------------------------- *)

\* The steps of the admitted clone_messages task of user u.
TaskStep(u) ==
    \/ InitFailedNotified(u)
    \/ ConnectDone(u)
    \/ MissingNotified(u)
    \/ GetSrcDone(u)
    \/ GetTgtDone(u)
    \/ ChannelFailedNotified(u)
    \/ CollectingNotified(u)
    \/ FetchDone(u)
    \/ CollectedNotified(u)
    \/ StoppedCollectNotified(u)
    \/ CollectErrorNotified(u)
    \/ ReadyNotified(u)
    \/ StoppedNotified(u)
    \/ DownloadDone(u)
    \/ SendFileDone(u)
    \/ SendMessageDone(u)
    \/ ProgressNotified(u)
    \/ SleepDone(u)
    \/ ErrorNotified(u)
    \/ FinalNotified(u)
    \/ DisconnectDone(u)

Next ==
    \E u \in Active :
        \/ full_clone(u)
        \/ set_range_end(u)
        \/ resume_clone(u)
        \/ stop_clone(u)
        \/ Admit(u)
        \/ RejectNotified(u)
        \/ TaskStep(u)

Spec == Init /\ [][Next]_vars

\* The life of one job: the handlers of a user create one task in all, so
\* that no invocation is ever rejected.
NextJob ==
    \E u \in Active :
        \/ full_clone(u) /\ hist[u].launches = 0
        \/ set_range_end(u) /\ hist[u].launches = 0
        \/ resume_clone(u) /\ hist'[u].launches <= 1
        \/ stop_clone(u)
        \/ Admit(u)
        \/ TaskStep(u)

SpecJob == Init /\ [][NextJob]_vars

\* Two users at once, one job each, on a channel of MaxId messages and on a
\* channel of one message: the steps of the two users' handlers and tasks
\* interleave freely.
InitTwo ==
    /\ worker = [u \in Users |-> NewWorker]
    /\ job = [u \in Users |-> NoJob]
    /\ tasks = [u \in Users |-> NoTasks]
    /\ hist = [u \in Users |-> NoHist]
    /\ reply = [u \in Users |-> "none"]
    /\ channel = [u \in Users |-> IF u \in Active THEN 1..MaxId ELSE 1..1]
    /\ config \in [Users -> {Config(creds, chans, -1001, -1002) :
                                creds \in BOOLEAN, chans \in BOOLEAN}]
    /\ files = [u \in Users |-> NoFiles(FALSE)]

NextTwo ==
    \E u \in Users :
        \/ full_clone(u) /\ hist[u].launches = 0
        \/ stop_clone(u)
        \/ Admit(u)
        \/ TaskStep(u)

SpecTwo == InitTwo /\ [][NextTwo]_vars

\* The channel ids a config can hold: bare ids, ids in the marked form, and
\* a negative id that is not in the marked form.
ChannelIds == {0, 7, -100, -1005, -5}

\* One job of a user whose config holds any two of the channel ids.
InitIds ==
    /\ worker = [u \in Users |-> NewWorker]
    /\ job = [u \in Users |-> NoJob]
    /\ tasks = [u \in Users |-> NoTasks]
    /\ hist = [u \in Users |-> NoHist]
    /\ reply = [u \in Users |-> "none"]
    /\ channel = [u \in Users |-> IF u \in Active THEN 1..MaxId ELSE {}]
    /\ \E creds \in BOOLEAN, chans \in BOOLEAN, src \in ChannelIds, tgt \in ChannelIds :
          config = [u \in Users |-> IF u \in Active
                                    THEN Config(creds, chans, src, tgt)
                                    ELSE Config(FALSE, FALSE, 0, 0)]
    /\ files = [u \in Users |-> NoFiles(FALSE)]

NextIds ==
    \E u \in Active :
        \/ full_clone(u) /\ hist[u].launches = 0
        \/ stop_clone(u)
        \/ Admit(u)
        \/ TaskStep(u)

SpecIds == InitIds /\ [][NextIds]_vars

(* ------------------------------ properties ----------------------------- *)

StrictlyIncreasing(s) == \A i \in 1..Len(s) - 1 : s[i] < s[i + 1]

NonDecreasing(s) == \A i \in 1..Len(s) - 1 : s[i] <= s[i + 1]

\* The step is one of the admitted clone_messages task of user u.
JobStep(u) == job'[u] # job[u]

\* C1: at most one invocation of clone_messages per user is admitted and not
\* yet finalized: the worker's is_cloning is set exactly while one is, and a
\* worker that is not cloning has no admitted task, so that an invocation is
\* admitted only by an idle worker.
C1_AtMostOneAdmitted ==
    \A u \in Users :
        /\ hist[u].admitted <= 1
        /\ worker[u].is_cloning <=> hist[u].admitted = 1
        /\ worker[u].is_cloning <=> job[u].pc # "idle"

\* A second invocation was rejected while the first one is still running.
C1_Witness ==
    \E u \in Users :
        /\ hist[u].admitted = 1
        /\ job[u].pc \in TransferPcs
        /\ worker[u].current_status[1] = "Already running a clone operation"


\* C2: an invocation of clone_messages that finds a job of the user active
\* leaves the user's files (status snapshot, sent log, error log, Stop and
\* Start markers) and the worker's fields (status text, timestamp, progress,
\* is_cloning) as they were.
C2_RejectionChangesNothing ==
    [][\A u \in Users :
          (Busy(worker[u]) /\ tasks'[u].created # tasks[u].created
                           /\ tasks[u].created # <<>>)
          => (files'[u] = files[u] /\ worker'[u] = worker[u])]_vars

\* C3: when the Stop marker was created while the Replicator had processed
\* k of n items, k < n, the status the job sets at its end is "Stopped
\* early", progress.done is then k or k + 1, and the marker is gone.
C3_StopGivesStoppedEarly ==
    [][\A u \in Users :
          (job[u].pc # "notify_final" /\ job'[u].pc = "notify_final"
              /\ hist[u].stop_at >= 0 /\ hist[u].stop_at < job[u].total_messages)
          => /\ worker'[u].current_status[1] = "Stopped early"
             /\ worker'[u].progress[1] \in {hist[u].stop_at, hist[u].stop_at + 1}
             /\ ~files'[u].stop]_vars

\* C4: a job that has observed the Stop marker, before a page fetch or
\* before a send, starts no page fetch and no transfer (download, send_file,
\* send_message) any more.
C4_NoWorkAfterStopObserved ==
    [][\A u \in Users :
          hist[u].stop_seen # "no"
          => ~(JobStep(u) /\ job'[u].pc \in TransferPcs \cup {"fetch"})]_vars

\* C5: with both bounds supplied, the messages the Replicator works on are
\* exactly those of the Reader's sequence with start_id <= id <= end_id, in
\* order; with no bound supplied they are the Reader's sequence.
C5_RangeFilterExact ==
    \A u \in Users :
        job[u].pc \in ReplicatePcs \cup {"notify_final"}
        => /\ (job[u].start_id # NoneArg /\ job[u].end_id # NoneArg)
              => job[u].all_messages =
                    SelectIds(hist[u].reversed, job[u].start_id[1], job[u].end_id[1])
           /\ (job[u].start_id = NoneArg /\ job[u].end_id = NoneArg)
              => job[u].all_messages = hist[u].reversed

\* C6: the sequence the Reader hands on after its one reversal is strictly
\* increasing by id, wherever the collection ends: at any point of the
\* collection the reversal of what was gathered is, and so is what was
\* handed on.
C6_ReaderStrictlyIncreasing ==
    \A u \in Users :
        /\ job[u].pc \in CollectPcs => StrictlyIncreasing(Reverse(job[u].all_messages))
        /\ job[u].pc \in ReplicatePcs \cup {"notify_final"}
           => StrictlyIncreasing(hist[u].reversed)

\* Two pages were gathered, the collection was then cut short by Stop, and
\* both messages were handed on.
C6_Witness ==
    \E u \in Users :
        /\ job[u].pc = "notify_ready"
        /\ hist[u].stop_seen = "collect"
        /\ hist[u].reversed = <<1, 2>>

\* C7: the ids of a user's sent log are in non-decreasing order.
C7_SentLogNonDecreasing ==
    \A u \in Users : NonDecreasing(files[u].sent)

\* C8: a job started by Resume with next_start = L + 1 transfers no message
\* with an id below next_start.  (Resume alone passes start_id without
\* end_id.)
C8_ResumeSkipsLogged ==
    \A u \in Users :
        (job[u].pc \in TransferPcs /\ job[u].start_id # NoneArg /\ job[u].end_id = NoneArg)
        => job[u].all_messages[job[u].pos] >= job[u].start_id[1]

\* C9: Resume with the sent log absent or empty answers that there is
\* nothing to resume and starts no job: no task is created, and the worker,
\* the files (sent log, Stop and Start markers) and the running task, if
\* any, are left as they were.
C9_ResumeRejected ==
    [][\A u \in Users :
          (resume_clone(u) /\ (~files[u].sent_exists \/ files[u].sent = <<>>))
          => /\ reply'[u] \in {"No previous clone operation to resume",
                               "No sent messages found in log"}
             /\ UNCHANGED <<worker, files, job, tasks, hist>>]_vars

\* Resume was rejected, with a Stop marker set and no job running.
C9_Witness ==
    \E u \in Users :
        /\ reply[u] = "No previous clone operation to resume"
        /\ files[u].stop
        /\ ~worker[u].is_cloning
        /\ tasks[u].created = <<>>

\* C10: a failed transfer is written to the error log and leaves the sent
\* log and the progress as they were, and the job goes on: after the error
\* status the next item of the sequence is taken up (or the Stop marker is
\* observed, or the sequence is at its end).
C10_ItemFailureIsolated ==
    [][\A u \in Users :
          /\ (job[u].pc \in TransferPcs /\ JobStep(u)
                 /\ files'[u].error # files[u].error)
             => /\ job'[u] = [job[u] EXCEPT !.pc = "notify_error"]
                /\ files'[u].error =
                      Append(files[u].error,
                             <<"Message failed", job[u].all_messages[job[u].pos]>>)
                /\ files'[u].sent = files[u].sent
                /\ worker'[u].progress = worker[u].progress
          /\ (job[u].pc = "notify_error" /\ JobStep(u))
             => IF job[u].pos = Len(job[u].all_messages)
                THEN job'[u].pc = "notify_final"
                ELSE /\ job'[u].pos = job[u].pos + 1
                     /\ job'[u].all_messages = job[u].all_messages
                     /\ IF files[u].stop
                        THEN job'[u].pc = "notify_stopped"
                        ELSE job'[u].pc \in TransferPcs \cup {"notify_progress", "sleep"}]_vars

\* The first item failed and the second one is being transferred.
C10_Witness ==
    \E u \in Users :
        /\ files[u].error = << <<"Message failed", 1>> >>
        /\ job[u].pc \in TransferPcs
        /\ job[u].pos = 2
        /\ job[u].all_messages = <<1, 2>>

\* The step ends the handling of an item of user u: a transfer returned or
\* raised, or the item taken up was a no-op.
ItemHandled(u) ==
    /\ JobStep(u)
    /\ job[u].pc \in TransferPcs \/ job'[u].pos = job[u].pos + 1
    /\ job'[u].pc \notin TransferPcs \cup {"notify_stopped"}
    /\ job'[u].pos > 0

\* C11: with total items in the filtered sequence, a progress status
\* ("Cloning: processed/total") is reported each time max(1, total div 10)
\* further items were processed, and one is reported once the final item of
\* the sequence was handled, whatever its outcome.
C11_ProgressNotifications ==
    [][\A u \in Users :
          ItemHandled(u)
          => LET total == job[u].total_messages
                 every == Max(1, total \div progress_divisor)
                 reported == /\ job'[u].pc = "notify_progress"
                             /\ worker'[u].current_status =
                                   Status("Cloning", job'[u].processed, total)
             IN /\ (job'[u].processed = job[u].processed + 1
                       /\ job'[u].processed % every = 0) => reported
                /\ job'[u].pos = total => reported]_vars


\* C12: no client connection of a user stays open while no job of the user
\* is running: once the worker is idle again and the disconnect of the job
\* that just ended is over, every connection a job established is closed.
C12_ConnectionReleased ==
    \A u \in Users :
        (~worker[u].is_cloning /\ tasks[u].closing = 0) => tasks[u].open = 0


\* C13: when the client cannot be authenticated (the credentials are absent
\* from the config, or connect() fails), the job sets the status "Client
\* initialization failed" and goes on to no channel resolution and no page
\* fetch; after that status the worker is idle (is_cloning false) again.
C13_AuthFailureReturnsToIdle ==
    [][\A u \in Users :
          LET failed == /\ job'[u].pc = "notify_init_failed"
                        /\ worker'[u].current_status[1] = "Client initialization failed"
          IN /\ (job[u].pc = "idle" /\ JobStep(u) /\ ~config[u].credentials) => failed
             /\ (job[u].pc = "connect" /\ JobStep(u) /\ tasks'[u].open = tasks[u].open)
                => failed
             /\ (job[u].pc = "notify_init_failed" /\ JobStep(u))
                => (job'[u].pc = "idle" /\ ~worker'[u].is_cloning)]_vars


\* C14: progress.done <= progress.total in every reachable state, in the
\* worker's live progress and in the persisted status snapshot, through
\* empty jobs, failed items and early stops.
C14_DoneAtMostTotal ==
    \A u \in Users :
        /\ worker[u].progress[1] <= worker[u].progress[2]
        /\ \A i \in 1..Len(files[u].status) :
              files[u].status[i].progress[1] <= files[u].status[i].progress[2]

\* A job of two items, the first of which failed, is at its final status
\* with one item done.
C14_Witness ==
    \E u \in Users :
        /\ job[u].pc = "notify_final"
        /\ files[u].error = << <<"Message failed", 1>> >>
        /\ worker[u].progress = <<1, 2>>
        /\ files[u].status[1].progress = <<1, 2>>


\* C15: within one job the ids appended to the sent log are, in order, the
\* items whose handling ended successfully or as a no-op, and no others: a
\* step of the Replicator appends the id of the item and counts it when the
\* item's handling ends well, and leaves the log and the count alone
\* otherwise; and the number of ids the job has appended (the log's length
\* beyond its length at the job's start) equals progress.done.
C15_SentLogMatchesProcessed ==
    [][\A u \in Users :
          /\ job[u].pc \in ReplicatePcs \cup {"notify_final"}
             => /\ Len(files[u].sent) - hist[u].base = job[u].processed
                /\ worker[u].progress[1] = job[u].processed
          /\ (job[u].pc \in ReplicatePcs /\ JobStep(u)
                 /\ job'[u].pc \in ReplicatePcs \cup {"notify_final"})
             => IF ItemHandled(u) /\ job'[u].pc \in {"notify_progress", "sleep"}
                THEN /\ files'[u].sent =
                           Append(files[u].sent, job[u].all_messages[job'[u].pos])
                     /\ job'[u].processed = job[u].processed + 1
                ELSE /\ files'[u].sent = files[u].sent
                     /\ job'[u].processed = job[u].processed]_vars

\* The first item failed, the second one was a no-op or was sent: the job
\* has logged the second id only.
C15_Witness ==
    \E u \in Users :
        /\ job[u].pc = "sleep"
        /\ files[u].error = << <<"Message failed", 1>> >>
        /\ files[u].sent = <<2>>
        /\ worker[u].progress = <<1, 2>>


\* C16: the Stop marker of a user is removed only by a running job of the
\* user that observed it at one of two points: before a page fetch (the
\* removal is in the step of the observation) or before the handling of an
\* item (the removal follows the "Stopped" status of that observation).  No
\* other step removes the marker.
C16_StopConsumedWhereObserved ==
    [][\A u \in Users :
          (files[u].stop /\ ~files'[u].stop)
          => /\ JobStep(u)
             /\ \/ job'[u].pc = "notify_stopped_collect"
                \/ job[u].pc = "notify_stopped"]_vars


\* C17: the rate-limiting delay comes after every item, whatever its
\* outcome: the handling of an item that is not the first of the sequence
\* starts from the delay step and from no other.
C17_DelayAfterEveryItem ==
    [][\A u \in Users :
          (JobStep(u) /\ job[u].pos >= 1 /\ job'[u].pos = job[u].pos + 1
              /\ job'[u].pc # "notify_stopped")
          => job[u].pc = "sleep"]_vars


\* C18: when the credentials or the source/target channel ids are absent
\* from the config, a job performs no network operation of the client (no
\* connect, no channel resolution, no page fetch, no connection open): once
\* admitted it sets a Failed status, and after that status the worker is
\* idle again.
C18_InitFailureBeforeNetwork ==
    [][\A u \in Users :
          (~config[u].credentials \/ ~config[u].channels)
          => /\ job[u].pc \notin {"connect", "get_src", "get_tgt", "fetch"}
             /\ tasks[u].open = 0
             /\ (job[u].pc = "idle" /\ JobStep(u))
                => /\ job'[u].pc \in {"notify_init_failed", "notify_missing"}
                   /\ worker'[u].current_status[1] \in
                         {"Client initialization failed",
                          "Missing source or target channel"}
             /\ (job[u].pc \in {"notify_init_failed", "notify_missing"} /\ JobStep(u))
                => (job'[u].pc = "idle" /\ ~worker'[u].is_cloning)]_vars


\* C19: a failed page fetch leaves what was gathered as it is; after its
\* error status the job fetches no page again but hands on what was
\* gathered, reversed and filtered, and the Replicator works through exactly
\* that sequence, item by item, with no further fetch.
C19_CollectionFailureKeepsPartial ==
    [][\A u \in Users :
          /\ (job[u].pc = "fetch" /\ job'[u].pc = "notify_collect_error")
             => job'[u].all_messages = job[u].all_messages
          /\ (job[u].pc = "notify_collect_error" /\ JobStep(u))
             => /\ job'[u].pc = "notify_ready"
                /\ job'[u].all_messages =
                      RangeFilter(Reverse(job[u].all_messages),
                                  job[u].start_id, job[u].end_id)
                /\ job'[u].total_messages = Len(job'[u].all_messages)
                /\ job'[u].pos = 0
          /\ (job[u].pc \in ReplicatePcs /\ JobStep(u)
                 /\ job'[u].pc \notin {"idle", "crashed"})
             => /\ job'[u].pc \in ReplicatePcs \cup {"notify_final"}
                /\ job'[u].all_messages = job[u].all_messages
                /\ job'[u].pos \in {job[u].pos, job[u].pos + 1}
                /\ job'[u].pc = "notify_final"
                   => (job[u].pc = "notify_stopped"
                       \/ job[u].pos = Len(job[u].all_messages))]_vars

\* Of a channel of two messages the first page held message 2, the second
\* fetch failed, and message 2 is being transferred.
C19_Witness ==
    \E u \in Users :
        /\ channel[u] = 1..2
        /\ job[u].pc \in TransferPcs
        /\ job[u].start_id = NoneArg
        /\ hist[u].stop_seen = "no"
        /\ job[u].all_messages = <<2>>


\* The statuses with which a job ends.
TerminalStatuses ==
    {"Completed", "Stopped early", "Client initialization failed",
     "Missing source or target channel", "Channel access failed"}

\* C20: an accepted job goes from Idle through Collecting, Ready and Cloning
\* to a terminal status, in that order, and then back to Idle: collection
\* starts after the channels were resolved, replication starts from the
\* end of the collection with the Ready status that carries the total, a
\* transfer starts only in replication, the final status follows
\* replication, and the job's task ends only with a terminal status set and
\* the worker idle (is_cloning false) again.
C20_JobStateOrder ==
    [][\A u \in Users :
          JobStep(u)
          => /\ (job'[u].pc \in CollectPcs /\ job[u].pc \notin CollectPcs)
                => /\ job[u].pc = "get_tgt"
                   /\ worker'[u].current_status[1] = "Collecting messages..."
             /\ (job'[u].pc \in ReplicatePcs /\ job[u].pc \notin ReplicatePcs)
                => /\ job[u].pc \in CollectPcs
                   /\ job'[u].pc = "notify_ready"
                   /\ worker'[u].current_status =
                         Status("Ready to clone", job'[u].total_messages, 0)
             /\ job'[u].pc \in TransferPcs
                => job[u].pc \in ReplicatePcs
             /\ (job'[u].pc = "notify_final" /\ job[u].pc # "notify_final")
                => /\ job[u].pc \in ReplicatePcs
                   /\ worker'[u].current_status[1] \in {"Completed", "Stopped early"}
             /\ (worker[u].is_cloning /\ ~worker'[u].is_cloning)
                => worker[u].current_status[1] \in TerminalStatuses
             /\ (job[u].pc # "idle" /\ job'[u].pc \in {"idle", "crashed"})
                => /\ job'[u].pc = "idle"
                   /\ ~worker'[u].is_cloning
                   /\ worker'[u].current_status[1] \in TerminalStatuses]_vars


\* What clone_messages does after the await of the update_status it is
\* suspended in, up to its next await; kind is the kind of the next item.
AfterStatus(s, kind) ==
    CASE s.j.pc \in {"notify_init_failed", "notify_missing", "notify_channel_failed"}
           -> Abort(s)
      [] s.j.pc \in {"notify_collecting", "notify_collected"}
           -> CollectLoop(s)
      [] s.j.pc \in {"notify_stopped_collect", "notify_collect_error"}
           -> EndCollect(s)
      [] s.j.pc \in {"notify_ready", "notify_error"}
           -> CloneLoop(s, kind)
      [] s.j.pc = "notify_stopped"
           -> IF s.f.stop THEN Finish([s EXCEPT !.f.stop = FALSE]) ELSE Crash(s)
      [] s.j.pc = "notify_progress"
           -> [s EXCEPT !.j.pc = "sleep"]
      [] s.j.pc = "notify_final"
           -> [Abort(s) EXCEPT !.t.closing = @ + 1]
      [] OTHER -> s

\* C21: a failed status update is written to the error log and changes
\* nothing else: the step in which it is logged leaves the worker, the
\* markers, the sent log, the status snapshot, the job and the user's other
\* tasks exactly as the same step does when the update succeeds.
C21_StatusFailureSwallowed ==
    [][\A u \in Users :
          files'[u].error = Append(files[u].error, <<"Status update failed", 0>>)
          => LET s == Cur(u)
                 q == [w |-> worker'[u],
                       f |-> [files'[u] EXCEPT !.error = files[u].error],
                       j |-> job'[u], t |-> tasks'[u], h |-> hist'[u]]
             IN \/ tasks[u].rejected > 0 /\ q = [s EXCEPT !.t.rejected = @ - 1]
                \/ \E kind \in Kinds : q = AfterStatus(s, kind)]_vars

\* One status update of the job failed, and the job has cloned both
\* messages of the channel and set its final status.
C21_Witness ==
    \E u \in Users :
        /\ job[u].pc = "notify_final"
        /\ files[u].error = << <<"Status update failed", 0>> >>
        /\ files[u].sent = <<1, 2>>
        /\ worker[u].current_status = Status("Completed", 2, 2)


\* The step is one of a handler of user u that launches a job.
Launched(u) == Len(tasks'[u].created) > Len(tasks[u].created)

\* C22: every handler that launches a job (Full Clone, Range Clone, Resume)
\* has created the user's Start marker when the task is created, so the
\* marker exists whenever a job was launched; and no step of clone_messages
\* changes or removes it: the marker changes only in a launching step.
C22_StartMarkerAdvisory ==
    [][\A u \in Users :
          /\ Launched(u) => files'[u].start
          /\ hist[u].launches > 0 => files[u].start
          /\ files'[u].start # files[u].start => Launched(u)]_vars

\* A job launched by Resume is transferring, and the Start marker is there.
C22_Witness ==
    \E u \in Users :
        /\ job[u].pc \in TransferPcs
        /\ job[u].start_id # NoneArg
        /\ job[u].end_id = NoneArg
        /\ files[u].start


\* C23: a job whose channels were resolved terminates.  Every page fetched
\* moves the anchor to a smaller id (so the collection ends after finitely
\* many fetches), the Replicator takes up the items one after the other,
\* each once, and the job's task ends only after its final status, with the
\* worker idle again.
C23_JobTerminates ==
    [][\A u \in Users :
          (JobStep(u) /\ job[u].pc \in CollectPcs \cup ReplicatePcs \cup {"notify_final"})
          => /\ (job[u].pc = "fetch" /\ job'[u].pc \in CollectPcs
                    /\ job'[u].pc # "notify_collect_error")
                => /\ job'[u].offset_id >= 1
                   /\ job[u].offset_id # 0 => job'[u].offset_id < job[u].offset_id
             /\ (job[u].pc \in ReplicatePcs /\ job'[u].pc \in ReplicatePcs)
                => job'[u].pos \in {job[u].pos, job[u].pos + 1}
             /\ job'[u].pc \in TransferPcs
                => (job[u].pc \in TransferPcs \/ job'[u].pos = job[u].pos + 1)
             /\ job'[u].pc \in {"idle", "crashed"}
                => /\ job[u].pc = "notify_final"
                   /\ job'[u].pc = "idle"
                   /\ ~worker'[u].is_cloning]_vars


\* The step changes something of user u: the worker, a file, the job, a
\* task or the reply to a handler.
Touched(u) ==
    <<worker[u], files[u], job[u], tasks[u], hist[u], reply[u]>>' #
    <<worker[u], files[u], job[u], tasks[u], hist[u], reply[u]>>

\* C24: the jobs of different users are independent under every
\* interleaving: a step that changes anything of one user (a handler of the
\* user or a step of the user's job) changes nothing of another user, no
\* marker, sent log, status snapshot or worker field; a job stops only on
\* the Stop marker of its own user; and an invocation is rejected only when
\* the worker of its own user is cloning.
C24_UsersIndependent ==
    [][\A u \in Users :
          /\ \A v \in Users \ {u} : Touched(u) => ~Touched(v)
          /\ (job'[u].pc \in {"notify_stopped", "notify_stopped_collect"}
                 /\ job'[u].pc # job[u].pc)
             => files[u].stop
          /\ tasks'[u].rejected > tasks[u].rejected => worker[u].is_cloning]_vars

\* The jobs of both users are transferring, and Stop was requested for one
\* of them only.
C24_Witness ==
    /\ job["A"].pc \in TransferPcs
    /\ job["B"].pc \in TransferPcs
    /\ files["A"].stop
    /\ ~files["B"].stop


\* C25: a Stop request is never lost: while a job of the user is collecting
\* or replicating and has not yet observed the pending Stop marker, no step
\* of a handler (Stop, Full Clone, Range Clone, Resume) removes the marker,
\* so that the job finds it at its next polling point.
C25_StopNeverLost ==
    [][\A u \in Users :
          (files[u].stop /\ job[u].pc \in (CollectPcs \cup ReplicatePcs) \ {"notify_stopped"}
              /\ ~JobStep(u))
          => files'[u].stop]_vars


\* C26: a Stop marker created while no job of the user is running does not
\* reach the next job: every handler that launches a job (Full Clone, Range
\* Clone, Resume) for an idle worker leaves no Stop marker behind when the
\* task is created, so that the job finds none that is older than itself.
C26_StaleStopCleared ==
    [][\A u \in Users :
          (Launched(u) /\ ~worker[u].is_cloning) => ~files'[u].stop]_vars


\* The ids of the config of user u.
ConfiguredIds(u) == {config[u].source_channel_id, config[u].target_channel_id}

\* C27, as stated: for every configured numeric id, normalize_channel_id
\* returns an id that carries the prefix "-100" unchanged and any other id
\* with the prefix prepended, and normalizing its result gives that result
\* again.
C27_NormalizeAnyId ==
    \A u \in Users :
        \A cid \in ConfiguredIds(u) :
            LET r == normalize_channel_id(cid)
            IN /\ r.ok
               /\ startswith(str(cid), prefix) => r.value = cid
               /\ ~startswith(str(cid), prefix) => str(r.value) = prefix \o str(cid)
               /\ normalize_channel_id(r.value) = r

\* C27, amended: normalize_channel_id returns an id that carries the prefix
\* "-100" unchanged and a bare (non-negative) id with the prefix prepended,
\* and normalizing its result gives that result again; of a negative id
\* without the prefix there is no normal form (the conversion raises).  The
\* entities of a job are looked up by the normalized ids, and a job whose
\* channel resolution fails, by the conversion or by the lookup, sets the
\* status "Channel access failed" and ends with no page fetch, the worker
\* idle again.
C27_NormalizeChannelId ==
    [][\A u \in Users :
          /\ \A cid \in ConfiguredIds(u) :
                LET r == normalize_channel_id(cid)
                IN /\ startswith(str(cid), prefix) => (r.ok /\ r.value = cid)
                   /\ cid >= 0 => (r.ok /\ str(r.value) = prefix \o str(cid))
                   /\ (cid < 0 /\ ~startswith(str(cid), prefix)) => ~r.ok
                   /\ r.ok => normalize_channel_id(r.value) = r
          /\ job[u].pc \in {"get_src", "get_tgt"} \cup CollectPcs
             => normalize_channel_id(config[u].source_channel_id).ok
          /\ job[u].pc \in {"get_tgt"} \cup CollectPcs
             => normalize_channel_id(config[u].target_channel_id).ok
          /\ job[u].pc \in CollectPcs
             => /\ str(job[u].src_entity) \in
                      {str(config[u].source_channel_id),
                       prefix \o str(config[u].source_channel_id)}
                /\ str(job[u].tgt_entity) \in
                      {str(config[u].target_channel_id),
                       prefix \o str(config[u].target_channel_id)}
                /\ startswith(str(job[u].src_entity), prefix)
                /\ startswith(str(job[u].tgt_entity), prefix)
          /\ (job'[u].pc = "notify_channel_failed" /\ JobStep(u))
             => /\ job[u].pc \in {"connect", "get_src", "get_tgt"}
                /\ worker'[u].current_status[1] = "Channel access failed"
          /\ (job[u].pc = "notify_channel_failed" /\ JobStep(u))
             => (job'[u].pc = "idle" /\ ~worker'[u].is_cloning)]_vars

\* A job whose source id was bare and whose target id carried the prefix has
\* resolved both and fetches a page.
C27_Witness ==
    \E u \in Users :
        /\ job[u].pc = "fetch"
        /\ config[u].source_channel_id = 7
        /\ job[u].src_entity = -1007
        /\ config[u].target_channel_id = -1005
        /\ job[u].tgt_entity = -1005

=============================================================================
